---- MODULE Spec2Model ----
(***************************************************************************)
(* Node-Token-Authentication: the authentication pipeline of the three     *)
(* server versions the repository holds.                                   *)
(*                                                                         *)
(*   "router"  : server.js 1-43 mounting app/routes/api (the routes are    *)
(*               the text of src/app/models/user.js 9-242)                 *)
(*   "limited" : src/unnamed/part_000 (server with the /authenticate       *)
(*               rate limit)                                               *)
(*   "legacy"  : server.js 45-307 (server without a rate limit)            *)
(*                                                                         *)
(* Node runs one callback at a time: every action below is one callback    *)
(* (or the synchronous part of a request) run to completion, merged with   *)
(* the external operation (MongoDB, Redis, argon2) whose result it gets.   *)
(***************************************************************************)
EXTENDS Integers, Sequences, FiniteSets, Bags, TLC

VARIABLES
    variant,    \* which server version is deployed
    alive,      \* FALSE once an uncaught exception has ended the process
    store,      \* the users collection, in natural (insertion) order
    limits,     \* the Redis rate-limit entries, by client address
    reqs,       \* bag of the requests in flight or answered and not yet collected
    issued,     \* tokens that clients hold from earlier responses
    clock,      \* Date.now(), in milliseconds
    advances,   \* how often the clock has been moved
    arrived,    \* how many requests have arrived
    decisions   \* the rate limiter's decisions so far: when, for which address,
                \* and whether admitted

vars == <<variant, alive, store, limits, reqs, issued, clock, advances, arrived,
          decisions>>

---------------------------------------------------------------------------
\* Bounds of the model.

MaxRequests == 3
MaxInFlight == 2
MaxIssued == 1
MaxAdvances == 1
MaxSalt == 1

---------------------------------------------------------------------------
\* Inputs.

Variants == {"router", "limited", "legacy"}

Alice == "alice"
NoName == ""
Nick == "Nick Cerminara"
Usernames == {NoName, Alice}

\* Passwords are sequences of characters; the empty one stands for a
\* missing or empty body field (both falsy in the handlers).
NoPw == <<>>
Passw0rd == <<"P", "a", "s", "s", "w", "0", "r", "d", "!">>
Other1 == <<"O", "t", "h", "e", "r", "1", "!", "@">>
Short == <<"s", "h", "o", "r", "t">>
SetupPw == <<"p", "a", "s", "s", "w", "o", "r", "d">>
LoginPasswords == {NoPw, Passw0rd, Other1}

NoEmail == ""
SomeEmail == "a@example.org"

\* the bodies of POST /create: <<username, password, email>>
RegisterInputs ==
    {<<Alice, Passw0rd, NoEmail>>, <<Alice, Other1, NoEmail>>,
     <<Alice, Short, NoEmail>>, <<Alice, NoPw, NoEmail>>,
     <<Alice, NoPw, SomeEmail>>, <<NoName, Passw0rd, NoEmail>>,
     <<NoName, NoPw, NoEmail>>}

AddrA == "10.0.0.1"
Addrs == {AddrA}

Salts == 1..MaxSalt

---------------------------------------------------------------------------
\* PasswordPolicy (password-sheriff), as configured in /create.

minLength == 6
identicalCharsMax == 3

upperCase == {"A", "B", "C", "D", "E", "F", "G", "H", "I", "J", "K", "L", "M",
              "N", "O", "P", "Q", "R", "S", "T", "U", "V", "W", "X", "Y", "Z"}
numbers == {"0", "1", "2", "3", "4", "5", "6", "7", "8", "9"}
specialCharacters == {" ", "!", "#", "$", "%", "&", "(", ")", "*", "+", ",",
                      "-", ".", "/", ":", ";", "<", "=", ">", "?", "@", "[",
                      "]", "^", "_", "{", "|", "}", "~"}

\* a length rule that wants more than minLength characters
LengthRuleAbove(pw) == Len(pw) > minLength

LengthRule(pw) == Len(pw) >= minLength

\* the length of the run of identical characters that ends at position i
RECURSIVE RunEndingAt(_, _)
RunEndingAt(pw, i) ==
    IF i = 1 THEN 1
    ELSE IF pw[i] = pw[i - 1] THEN 1 + RunEndingAt(pw, i - 1)
    ELSE 1

IdenticalCharsRule(pw) ==
    /\ pw # <<>>
    /\ \A i \in 1..Len(pw) : RunEndingAt(pw, i) <= identicalCharsMax

ContainsRule(pw) ==
    /\ \E i \in 1..Len(pw) : pw[i] \in upperCase
    /\ \E i \in 1..Len(pw) : pw[i] \in numbers
    /\ \E i \in 1..Len(pw) : pw[i] \in specialCharacters

PolicyCheck(pw) == LengthRule(pw) /\ IdenticalCharsRule(pw) /\ ContainsRule(pw)

\* policy.explain(): the description of the configured rules; it does not
\* depend on the candidate password.
PolicyExplain == <<"length", "identicalChars", "contains">>

---------------------------------------------------------------------------
\* PasswordHasher (argon2).

NoDigest == [alg |-> "none", salt |-> 0, text |-> <<>>]
Argon2Hash(pw, salt) == [alg |-> "argon2", salt |-> salt, text |-> pw]
\* what /setup stores: the password itself
Plain(pw) == [alg |-> "plain", salt |-> 0, text |-> pw]

IsDigest(d) == d.alg = "argon2"

\* argon2.verify(stored, candidate): "match", "nomatch", or "error" when the
\* stored value is no argon2 digest or the candidate is missing
Argon2Verify(stored, pw) ==
    IF ~IsDigest(stored) \/ pw = NoPw THEN "error"
    ELSE IF stored.text = pw THEN "match"
    ELSE "nomatch"

---------------------------------------------------------------------------
\* TokenService (jsonwebtoken).

secret == "config.secret"
AttackerKey == "other key"
expiresIn == 86400

NoClaims == [username |-> "", iat |-> 0, exp |-> 0]
NoSig == [key |-> "", over |-> NoClaims]

NoToken == [kind |-> "none", payload |-> NoClaims, sig |-> NoSig, signedAt |-> 0]
EmptyToken == [kind |-> "empty", payload |-> NoClaims, sig |-> NoSig, signedAt |-> 0]
Garbage == [kind |-> "garbage", payload |-> NoClaims, sig |-> NoSig, signedAt |-> 0]

Seconds(ms) == ms \div 1000

\* jwt.sign(payload, key, {expiresIn}) at time now; signedAt is not part of
\* the token: it keeps, for the properties, the millisecond it was signed at
JwtSign(username, key, now) ==
    LET claims == [username |-> username,
                   iat |-> Seconds(now),
                   exp |-> Seconds(now) + expiresIn]
    IN [kind |-> "jwt", payload |-> claims, sig |-> [key |-> key, over |-> claims],
        signedAt |-> now]

\* a token whose payload was changed after it was signed
Tamper(t, username) == [t EXCEPT !.payload.username = username]

SignatureValid(t, key) ==
    t.kind = "jwt" /\ t.sig.key = key /\ t.sig.over = t.payload

\* an expiry test that still accepts the token in the second it expires
ExpiredAfter(t, now) == Seconds(now) > t.payload.exp

\* jsonwebtoken: TokenExpiredError when clockTimestamp >= payload.exp
Expired(t, now) == Seconds(now) >= t.payload.exp

\* a verification that forgets the expiry
JwtVerifyIgnoringExpiry(t, key, now) ==
    IF ~SignatureValid(t, key) THEN "invalid" ELSE "ok"

\* jwt.verify(token, key): "ok", "invalid" (JsonWebTokenError) or "expired"
\* (TokenExpiredError); the signature is checked before the expiry
JwtVerify(t, key, now) ==
    IF ~SignatureValid(t, key) THEN "invalid"
    ELSE IF Expired(t, now) THEN "expired"
    ELSE "ok"

Truthy(t) == t.kind \notin {"none", "empty"}

---------------------------------------------------------------------------
\* RateLimiter (express-limiter over Redis), as configured by each version.

totalRouter == 15
totalLimited == 5
expire == 1000 * 60 * 5

LimiterOn == variant # "legacy"
total == IF variant = "router" THEN totalRouter ELSE totalLimited

\* a router whose limiter is mounted for every method
MountedLimitAnyMethod(method, path) ==
    CASE variant = "router" -> TRUE
      [] variant = "limited" -> path = "/authenticate"
      [] OTHER -> FALSE

\* limiter({path, method, ...}) with both a path and a method mounts the
\* middleware on the router itself, ahead of every route:
\* router.post('*', ...) in the router, apiRoutes.all('/authenticate', ...)
\* in the limited server.
MountedLimit(method, path) ==
    CASE variant = "router" -> method = "POST"
      [] variant = "limited" -> path = "/authenticate"
      [] OTHER -> FALSE

\* the same middleware, authLimit, is also given to the two routes
RouteLimit(method, path) ==
    LimiterOn /\ method = "POST" /\ path \in {"/create", "/authenticate"}

LimiterPasses(method, path) ==
    (IF MountedLimit(method, path) THEN 1 ELSE 0)
        + (IF RouteLimit(method, path) THEN 1 ELSE 0)

NoLimit == [present |-> FALSE, remaining |-> 0, reset |-> 0, px |-> 0]

\* db.get(key): the entry, unless Redis has expired it (SET ... PX expire:
\* the key is gone once the time is past its expiry)
RedisGet(addr) ==
    IF limits[addr].present /\ clock <= limits[addr].px THEN limits[addr]
    ELSE NoLimit

Max(a, b) == IF a >= b THEN a ELSE b

\* a limiter that goes on counting down below -1
NextLimitUncapped(addr) ==
    LET got == RedisGet(addr)
        lim0 == IF got.present THEN got
                ELSE [present |-> TRUE, remaining |-> total,
                      reset |-> clock + expire, px |-> 0]
        lim1 == IF clock > lim0.reset
                THEN [lim0 EXCEPT !.reset = clock + expire, !.remaining = total]
                ELSE lim0
    IN [lim1 EXCEPT !.remaining = lim1.remaining - 1]

\* a limiter whose window starts again with every request
NextLimitSliding(addr) ==
    LET got == RedisGet(addr)
        lim0 == IF got.present THEN got
                ELSE [present |-> TRUE, remaining |-> total,
                      reset |-> clock + expire, px |-> 0]
        lim1 == IF clock > lim0.reset
                THEN [lim0 EXCEPT !.reset = clock + expire, !.remaining = total]
                ELSE [lim0 EXCEPT !.reset = clock + expire]
    IN [lim1 EXCEPT !.remaining = Max(lim1.remaining - 1, -1)]

\* the callback of db.get: the limit this request will write back
NextLimit(addr) ==
    LET got == RedisGet(addr)
        lim0 == IF got.present THEN got
                ELSE [present |-> TRUE, remaining |-> total,
                      reset |-> clock + expire, px |-> 0]
        lim1 == IF clock > lim0.reset
                THEN [lim0 EXCEPT !.reset = clock + expire, !.remaining = total]
                ELSE lim0
    IN [lim1 EXCEPT !.remaining = Max(lim1.remaining - 1, -1)]

---------------------------------------------------------------------------
\* Requests and responses.

NoUser == [found |-> FALSE, username |-> "", password |-> NoDigest]
Found(rec) == [found |-> TRUE, username |-> rec.username, password |-> rec.password]

NoRes == [status |-> 0, success |-> "absent", message |-> "", token |-> NoToken,
          policy |-> <<>>, exception |-> FALSE, names |-> <<>>, docs |-> <<>>,
          claims |-> NoClaims]

Json(status, success, message) ==
    [NoRes EXCEPT !.status = status, !.success = success, !.message = message]

NewReq(method, path, addr, username, password, email, tb, tq, th) ==
    [method |-> method, path |-> path, addr |-> addr,
     username |-> username, password |-> password, email |-> email,
     tokBody |-> tb, tokQuery |-> tq, tokHeader |-> th,
     pc |-> "new", passes |-> 0, lim |-> NoLimit, user |-> NoUser,
     digest |-> NoDigest, decoded |-> NoClaims, hashed |-> FALSE,
     known |-> FALSE, handler |-> "none", at |-> 0, res |-> NoRes]

\* res.status(s).json(...) / res.json(...): the request is answered
Respond(r, res) == [r EXCEPT !.pc = "done", !.res = res, !.at = clock]

\* res.json(...) without res.status(...) answers 200
StatusOr200(status) == IF variant = "legacy" THEN 200 ELSE status

\* User.findOne({username}): the first match in natural order
RECURSIVE FirstMatch(_, _, _)
FirstMatch(users, username, i) ==
    IF i > Len(users) THEN NoUser
    ELSE IF users[i].username = username THEN Found(users[i])
    ELSE FirstMatch(users, username, i + 1)

FindOne(username) == FirstMatch(store, username, 1)

---------------------------------------------------------------------------
\* The synchronous part of a request.

\* an extraction that looks at the header first
ExtractTokenHeaderFirst(r) ==
    IF Truthy(r.tokHeader) THEN r.tokHeader
    ELSE IF Truthy(r.tokQuery) THEN r.tokQuery
    ELSE r.tokBody

\* RequireToken: body, then query, then header
ExtractToken(r) ==
    IF Truthy(r.tokBody) THEN r.tokBody
    ELSE IF Truthy(r.tokQuery) THEN r.tokQuery
    ELSE r.tokHeader

NotFound(r) == Respond(r, [NoRes EXCEPT !.status = 404])

\* the routes registered after the token middleware
ProtectedRoute(r, claims) ==
    LET q == [r EXCEPT !.decoded = claims]
    IN  CASE r.method = "GET" /\ r.path = "/" ->
               Respond([q EXCEPT !.handler = "welcome"],
                       [NoRes EXCEPT !.status = 200,
                                     !.message = "Welcome to the coolest API on earth!"])
          [] r.method = "GET" /\ r.path = "/users" ->
               [q EXCEPT !.handler = "users", !.pc = "find"]
          [] r.method = "GET" /\ r.path = "/check" /\ variant # "router" ->
               Respond([q EXCEPT !.handler = "check"],
                       [NoRes EXCEPT !.status = 200, !.claims = claims])
          [] OTHER -> NotFound(q)

\* a gate that lets a request without a token through
RequireTokenOpen(r) ==
    LET token == ExtractToken(r)
    IN  IF Truthy(token) /\ JwtVerify(token, secret, clock) # "ok"
        THEN Respond(r, Json(StatusOr200(403), "false",
                             "Failed to authenticate token."))
        ELSE ProtectedRoute(r, token.payload)

RequireToken(r) ==
    LET token == ExtractToken(r)
    IN  IF Truthy(token)
        THEN IF JwtVerify(token, secret, clock) # "ok"
             THEN Respond(r, Json(StatusOr200(403), "false",
                                  "Failed to authenticate token."))
             ELSE ProtectedRoute(r, token.payload)
        ELSE Respond(r, Json(403, "false", "No token provided."))

\* what runs once the rate limiter (if any) has let the request through
Route(r) ==
    CASE r.method = "POST" /\ r.path = "/create" ->
           [r EXCEPT !.handler = "create", !.pc = "findOne"]
      [] r.method = "POST" /\ r.path = "/authenticate" ->
           [r EXCEPT !.handler = "authenticate", !.pc = "findOne"]
      [] OTHER -> RequireToken(r)

\* app-level routes come before the /api router
Dispatch(r) ==
    IF r.path = "/setup"
    THEN IF variant = "router" THEN NotFound(r)
         ELSE [r EXCEPT !.handler = "setup", !.pc = "setupSave"]
    ELSE IF LimiterPasses(r.method, r.path) > 0
         THEN [r EXCEPT !.pc = "limGet", !.passes = LimiterPasses(r.method, r.path)]
         ELSE Route(r)

---------------------------------------------------------------------------
\* Bookkeeping of the bag of requests.

One(r) == SetToBag({r})
Replace(r, q) == (reqs (-) One(r)) (+) One(q)
At(pc) == {r \in BagToSet(reqs) : r.pc = pc}


\* A client reads its response as soon as it is sent: nothing else happens
\* while an answered request is still in the bag.
Uncollected == At("done")
Pending(pc) == IF Uncollected = {} THEN At(pc) ELSE {}

\* an uncaught exception in the callback of request r ends the process and
\* every connection with it: r stays behind as the request whose callback
\* threw, the other requests in flight are dropped, and none is answered
Crash(r) ==
    /\ alive' = FALSE
    /\ reqs' = One([r EXCEPT !.pc = "thrown"])
    /\ UNCHANGED <<variant, store, limits, issued, clock, advances, arrived, decisions>>

---------------------------------------------------------------------------
\* Arrival of requests.

ArriveUpTo(r, max) ==
    /\ alive
    /\ Uncollected = {}
    /\ arrived < max
    /\ BagCardinality(reqs) < MaxInFlight
    /\ reqs' = reqs (+) One(Dispatch(r))
    /\ arrived' = arrived + 1
    /\ UNCHANGED <<variant, alive, store, limits, issued, clock, advances, decisions>>

Arrive(r) == ArriveUpTo(r, MaxRequests)

Register ==
    \E addr \in Addrs, in \in RegisterInputs :
        Arrive(NewReq("POST", "/create", addr, in[1], in[2], in[3],
                      NoToken, NoToken, NoToken))

Login ==
    \E addr \in Addrs, u \in Usernames, p \in LoginPasswords :
        Arrive(NewReq("POST", "/authenticate", addr, u, p, NoEmail,
                      NoToken, NoToken, NoToken))

Setup ==
    \E addr \in Addrs :
        Arrive(NewReq("GET", "/setup", addr, NoName, NoPw, NoEmail,
                         NoToken, NoToken, NoToken))

\* the tokens a client may present
Candidates ==
    {Garbage, JwtSign(Alice, AttackerKey, clock)}
        \cup issued \cup {Tamper(t, "root") : t \in issued}

TokenTriples ==
    {<<NoToken, NoToken, NoToken>>, <<EmptyToken, NoToken, NoToken>>}
        \cup {<<t, NoToken, NoToken>> : t \in Candidates}
        \cup {<<NoToken, t, NoToken>> : t \in Candidates}
        \cup {<<NoToken, NoToken, t>> : t \in Candidates}

Protected ==
    \E addr \in Addrs, path \in {"/", "/users", "/check"}, tt \in TokenTriples :
        Arrive(NewReq("GET", path, addr, NoName, NoPw, NoEmail, tt[1], tt[2], tt[3]))

---------------------------------------------------------------------------
\* The rate limiter middleware: db.get, then db.set, each with its callback.

\* a limiter without a lookup: one key for every client
RateLimitKeyShared(r) == AddrA

\* the key of the limit: path and method are those of the options, the same
\* for every request, so the key differs only by connection.remoteAddress
RateLimitKey(r) == r.addr

LimiterGet ==
    \E r \in Pending("limGet") :
        /\ reqs' = Replace(r, [r EXCEPT !.lim = NextLimit(RateLimitKey(r)),
                                        !.pc = "limSet"])
        /\ UNCHANGED <<variant, alive, store, limits, issued, clock, advances, arrived, decisions>>

\* an onRateLimited that answers 429 and then calls next() all the same
AfterLimitThenNext(r) ==
    IF r.lim.remaining >= 0
    THEN IF r.passes > 1
         THEN [r EXCEPT !.passes = r.passes - 1, !.pc = "limGet"]
         ELSE Route([r EXCEPT !.passes = 0])
    ELSE Route([r EXCEPT !.passes = 0,
                         !.res = Json(429, "false", "Rate limit exceeded")])

\* the callback of db.set: next() or onRateLimited
AfterLimit(r) ==
    IF r.lim.remaining >= 0
    THEN IF r.passes > 1
         THEN [r EXCEPT !.passes = r.passes - 1, !.pc = "limGet"]
         ELSE Route([r EXCEPT !.passes = 0])
    ELSE Respond(r, Json(429, "false", "Rate limit exceeded"))

LimiterSet ==
    \E r \in Pending("limSet") :
        /\ limits' = [limits EXCEPT ![RateLimitKey(r)] =
                                       [r.lim EXCEPT !.px = clock + expire]]
        /\ reqs' = Replace(r, AfterLimit(r))
        /\ decisions' = IF r.lim.remaining >= 0 /\ r.passes > 1
                        THEN decisions
                        ELSE Append(decisions, [at |-> clock,
                                                admitted |-> r.lim.remaining >= 0,
                                                addr |-> r.addr])
        /\ UNCHANGED <<variant, alive, store, issued, clock, advances, arrived>>

---------------------------------------------------------------------------
\* POST /create

\* the check for required information, which only the router has
MissingInformation(r) ==
    /\ variant = "router"
    /\ (r.username = NoName \/ r.password # NoPw \/ r.email # NoEmail)

\* the rules of the policy a password fails, in the order of the policy
FailingRules(pw) ==
    (IF LengthRule(pw) THEN <<>> ELSE <<"length">>)
        \o (IF IdenticalCharsRule(pw) THEN <<>> ELSE <<"identicalChars">>)
        \o (IF ContainsRule(pw) THEN <<>> ELSE <<"contains">>)

\* a handler that sends the failing rules instead of policy.explain()
CreateLookedUpFailingRules(r, user) ==
    LET q == [r EXCEPT !.user = user]
    IN  IF MissingInformation(r)
        THEN Respond(q, Json(403, "false", "Missing required information"))
        ELSE IF user.found
        THEN Respond(q, Json(StatusOr200(403), "false", "Username already exists."))
        ELSE IF ~PolicyCheck(r.password)
        THEN Respond(q, [Json(StatusOr200(406), "false", "Invalid Password")
                            EXCEPT !.policy = FailingRules(r.password)])
        ELSE [q EXCEPT !.pc = "hash", !.hashed = TRUE]

CreateLookedUp(r, user) ==
    LET q == [r EXCEPT !.user = user]
    IN  IF MissingInformation(r)
        THEN Respond(q, Json(403, "false", "Missing required information"))
        ELSE IF user.found
        THEN Respond(q, Json(StatusOr200(403), "false", "Username already exists."))
        ELSE IF ~PolicyCheck(r.password)
        THEN Respond(q, [Json(StatusOr200(406), "false", "Invalid Password")
                            EXCEPT !.policy = PolicyExplain])
        ELSE [q EXCEPT !.pc = "hash", !.hashed = TRUE]

\* whether, at the time of the lookup, the collection holds a record for the
\* username whose digest the password verifies against (kept with the
\* request for the properties only; the handler never reads it)
KnownCredentials(r) ==
    \E i \in 1..Len(store) :
        /\ store[i].username = r.username
        /\ Argon2Verify(store[i].password, r.password) = "match"

\* POST /authenticate
LoginLookedUp(r, user) ==
    LET q == [r EXCEPT !.user = user, !.known = KnownCredentials(r)]
    IN  IF ~user.found
        THEN Respond(q, Json(StatusOr200(403), "false",
                             "Authentication failed. User not found."))
        ELSE [q EXCEPT !.pc = "verify"]

\* the callback of User.findOne
FindOneDone ==
    \E r \in Pending("findOne"), err \in BOOLEAN :
        IF err THEN Crash(r)
        ELSE /\ reqs' = Replace(r, IF r.handler = "create"
                                   THEN CreateLookedUp(r, FindOne(r.username))
                                   ELSE LoginLookedUp(r, FindOne(r.username)))
             /\ UNCHANGED <<variant, alive, store, limits, issued, clock, advances, arrived, decisions>>

\* argon2.hash(...).then / .catch
HashDone ==
    \E r \in Pending("hash") :
        /\ \/ \E salt \in Salts :
                reqs' = Replace(r, [r EXCEPT !.digest = Argon2Hash(r.password, salt),
                                             !.pc = "save"])
           \/ reqs' = Replace(r, Respond(r, [Json(StatusOr200(500), "false",
                                                  "Cannot Create Account")
                                                EXCEPT !.exception = TRUE]))
        /\ UNCHANGED <<variant, alive, store, limits, issued, clock, advances, arrived, decisions>>

\* the document newUser.save() writes
NewUser(r) == [username |-> r.username, password |-> r.digest]

\* newUser.save and its callback
SaveDone ==
    \E r \in Pending("save"), err \in BOOLEAN :
        IF err THEN Crash(r)
        ELSE /\ store' = Append(store, NewUser(r))
             /\ reqs' = Replace(r, Respond(r, [NoRes EXCEPT !.status = 200,
                                                           !.success = "true"]))
             /\ UNCHANGED <<variant, alive, limits, issued, clock, advances, arrived, decisions>>

---------------------------------------------------------------------------
\* POST /authenticate, after the lookup

\* a handler whose .catch reports a failing hasher as a wrong password
LoginVerifiedAsWrongPassword(r, outcome) ==
    CASE outcome = "match" ->
           Respond(r, [Json(200, "true", "Enjoy your token!")
                          EXCEPT !.token = JwtSign(r.user.username, secret, clock)])
      [] OTHER ->
           Respond(r, Json(StatusOr200(403), "false",
                           "Authentication failed. Wrong password."))

LoginVerified(r, outcome) ==
    CASE outcome = "match" ->
           Respond(r, [Json(200, "true", "Enjoy your token!")
                          EXCEPT !.token = JwtSign(r.user.username, secret, clock)])
      [] outcome = "nomatch" ->
           Respond(r, Json(StatusOr200(403), "false",
                           "Authentication failed. Wrong password."))
      [] OTHER ->
           Respond(r, [[NoRes EXCEPT !.status = 500, !.message = "Unable to Login"]
                          EXCEPT !.exception = TRUE])

\* argon2.verify(...).then / .catch; the hasher may also fail by itself
VerifyDone ==
    \E r \in Pending("verify"), fails \in BOOLEAN :
        /\ reqs' = Replace(r, LoginVerified(r,
                        IF fails THEN "error"
                        ELSE Argon2Verify(r.user.password, r.password)))
        /\ UNCHANGED <<variant, alive, store, limits, issued, clock, advances, arrived, decisions>>

---------------------------------------------------------------------------
\* GET /users and GET /setup

RECURSIVE UsernamesOf(_)
UsernamesOf(users) ==
    IF users = <<>> THEN <<>>
    ELSE <<Head(users).username>> \o UsernamesOf(Tail(users))

UsersListed(r) ==
    IF variant = "legacy"
    THEN Respond(r, [NoRes EXCEPT !.status = 200, !.docs = store])
    ELSE Respond(r, [NoRes EXCEPT !.status = 200, !.names = UsernamesOf(store)])

\* the callback of User.find; it never looks at err
FindDone ==
    \E r \in Pending("find"), err \in BOOLEAN :
        IF err
        THEN IF variant = "legacy"
             THEN /\ reqs' = Replace(r, Respond(r, [NoRes EXCEPT !.status = 200]))
                  /\ UNCHANGED <<variant, alive, store, limits, issued, clock, advances, arrived, decisions>>
             ELSE Crash(r)
        ELSE /\ reqs' = Replace(r, UsersListed(r))
             /\ UNCHANGED <<variant, alive, store, limits, issued, clock, advances, arrived, decisions>>

SampleUser == [username |-> Nick, password |-> Plain(SetupPw)]

SetupSaveDone ==
    \E r \in Pending("setupSave"), err \in BOOLEAN :
        IF err THEN Crash(r)
        ELSE /\ store' = Append(store, SampleUser)
             /\ reqs' = Replace(r, Respond(r, [NoRes EXCEPT !.status = 200,
                                                           !.success = "true"]))
             /\ UNCHANGED <<variant, alive, limits, issued, clock, advances, arrived, decisions>>

---------------------------------------------------------------------------
\* The environment: clients and time.

\* the client reads the response; it keeps a token it was given
Collect ==
    \E r \in At("done") :
        /\ reqs' = reqs (-) One(r)
        /\ issued' = IF Truthy(r.res.token) /\ Cardinality(issued) < MaxIssued
                     THEN issued \cup {r.res.token}
                     ELSE issued
        /\ UNCHANGED <<variant, alive, store, limits, clock, advances, arrived, decisions>>

\* Time moves in steps far longer than a request takes to serve, so the
\* clock is moved between requests.
AdvanceSteps == {expiresIn * 1000}

Advance ==
    \E d \in AdvanceSteps :
        /\ alive
        /\ reqs = EmptyBag
        /\ advances < MaxAdvances
        /\ clock' = clock + d
        /\ advances' = advances + 1
        /\ UNCHANGED <<variant, alive, store, limits, reqs, issued, arrived, decisions>>

---------------------------------------------------------------------------

\* The database outlives the process: the server starts on an empty
\* collection or on one that holds a user registered by an earlier run.
InitialStores ==
    {<<>>, <<[username |-> Alice, password |-> Argon2Hash(Passw0rd, 1)]>>}

Init ==
    /\ variant \in Variants
    /\ alive = TRUE
    /\ store \in InitialStores
    /\ limits = [a \in Addrs |-> NoLimit]
    /\ reqs = EmptyBag
    /\ issued = {}
    /\ clock = 0
    /\ advances = 0
    /\ arrived = 0
    /\ decisions = <<>>

Next ==
    \/ Register
    \/ Login
    \/ Setup
    \/ Protected
    \/ LimiterGet
    \/ LimiterSet
    \/ FindOneDone
    \/ HashDone
    \/ SaveDone
    \/ VerifyDone
    \/ FindDone
    \/ SetupSaveDone
    \/ Collect
    \/ Advance

Spec == Init /\ [][Next]_vars

---------------------------------------------------------------------------
\* The token gate over time: the same server, with clients that send one
\* request at a time, that may put tokens in several places of a request,
\* and a clock that is also read within a second and around the end of the
\* 24 hours.

TickSteps == {expiresIn * 1000 - 500, 500}

Tick ==
    \E d \in TickSteps :
        /\ alive
        /\ reqs = EmptyBag
        /\ advances < MaxAdvances + 1
        /\ clock' = clock + d
        /\ advances' = advances + 1
        /\ UNCHANGED <<variant, alive, store, limits, reqs, issued, arrived, decisions>>

\* requests that carry something in the body, the query string and the header
Supplied == {NoToken, EmptyToken, Garbage} \cup issued

ProtectedMixed ==
    \E addr \in Addrs, path \in {"/", "/users"}, tb, tq, th \in Supplied :
        Arrive(NewReq("GET", path, addr, NoName, NoPw, NoEmail, tb, tq, th))

GateInit ==
    /\ variant \in Variants
    /\ alive = TRUE
    /\ store = <<[username |-> Alice, password |-> Argon2Hash(Passw0rd, 1)]>>
    /\ limits = [a \in Addrs |-> NoLimit]
    /\ reqs = EmptyBag
    /\ issued = {}
    /\ clock \in {0, 500}
    /\ advances = 0
    /\ arrived = 0
    /\ decisions = <<>>

GateNext ==
    \/ reqs = EmptyBag /\ Register
    \/ reqs = EmptyBag /\ Login
    \/ reqs = EmptyBag /\ Protected
    \/ reqs = EmptyBag /\ ProtectedMixed
    \/ LimiterGet
    \/ LimiterSet
    \/ FindOneDone
    \/ HashDone
    \/ SaveDone
    \/ VerifyDone
    \/ FindDone
    \/ Collect
    \/ Tick

SpecGate == GateInit /\ [][GateNext]_vars

---------------------------------------------------------------------------
\* The rate limiter under load: one address sends up to MaxLimited requests
\* to the rate-limited routes, alone or overlapping, and lets time pass
\* within and beyond the window that its first request opened at time 0.

MaxLimited == 8

LimitedLogin ==
    \E addr \in Addrs :
        ArriveUpTo(NewReq("POST", "/authenticate", addr, Alice, Other1, NoEmail,
                          NoToken, NoToken, NoToken), MaxLimited)

LimitedRegister ==
    \E addr \in Addrs :
        ArriveUpTo(NewReq("POST", "/create", addr, Alice, NoPw, NoEmail,
                          NoToken, NoToken, NoToken), MaxLimited)

WaitSteps == {expire \div 3, 2 * (expire \div 3)}

Wait ==
    \E d \in WaitSteps :
        /\ alive
        /\ reqs = EmptyBag
        /\ arrived > 0
        /\ advances < MaxAdvances + 1
        /\ clock' = clock + d
        /\ advances' = advances + 1
        /\ UNCHANGED <<variant, alive, store, limits, reqs, issued, arrived, decisions>>

LimiterInit ==
    /\ variant \in {"router", "limited"}
    /\ alive = TRUE
    /\ store = <<[username |-> Alice, password |-> Argon2Hash(Passw0rd, 1)]>>
    /\ limits = [a \in Addrs |-> NoLimit]
    /\ reqs = EmptyBag
    /\ issued = {}
    /\ clock = 0
    /\ advances = 0
    /\ arrived = 0
    /\ decisions = <<>>

LimiterNext ==
    \/ LimitedLogin
    \/ LimitedRegister
    \/ LimiterGet
    \/ LimiterSet
    \/ FindOneDone
    \/ VerifyDone
    \/ Collect
    \/ Wait

SpecLimiter == LimiterInit /\ [][LimiterNext]_vars

---------------------------------------------------------------------------
\* The password policy on its own: one Register request for a new username,
\* with any password of up to MaxPwLen characters over an alphabet that has
\* a character of each kind.

MaxPwLen == 7

PolicyAlphabet == {"a", "A", "1", "!"}
BoundedPasswords == UNION {[1..n -> PolicyAlphabet] : n \in 0..MaxPwLen}

PolicyRegister ==
    /\ arrived = 0
    /\ \E addr \in Addrs, pw \in BoundedPasswords :
           Arrive(NewReq("POST", "/create", addr, Alice, pw, NoEmail,
                         NoToken, NoToken, NoToken))

PolicyInit ==
    /\ variant \in Variants
    /\ alive = TRUE
    /\ store = <<>>
    /\ limits = [a \in Addrs |-> NoLimit]
    /\ reqs = EmptyBag
    /\ issued = {}
    /\ clock = 0
    /\ advances = 0
    /\ arrived = 0
    /\ decisions = <<>>

PolicyNext ==
    \/ PolicyRegister
    \/ LimiterGet
    \/ LimiterSet
    \/ FindOneDone
    \/ HashDone
    \/ SaveDone
    \/ Collect

SpecPolicy == PolicyInit /\ [][PolicyNext]_vars

---------------------------------------------------------------------------
\* The hasher: registrations and logins, among them logins for the sample
\* user GET /setup stores with its password in the clear.

HasherUsernames == {Alice, Nick}
HasherPasswords == {NoPw, Passw0rd, SetupPw}

HasherLogin ==
    \E addr \in Addrs, u \in HasherUsernames, p \in HasherPasswords :
        Arrive(NewReq("POST", "/authenticate", addr, u, p, NoEmail,
                      NoToken, NoToken, NoToken))

HasherNext ==
    \/ Register
    \/ HasherLogin
    \/ Setup
    \/ LimiterGet
    \/ LimiterSet
    \/ FindOneDone
    \/ HashDone
    \/ SaveDone
    \/ VerifyDone
    \/ SetupSaveDone
    \/ Collect

SpecHasher == Init /\ [][HasherNext]_vars

---------------------------------------------------------------------------
\* The keys of the limiter: logins from two addresses, under two usernames,
\* all within the window that the first of them opens.

AddrB == "10.0.0.2"
KeyAddrs == {AddrA, AddrB}
Bob == "bob"
KeyUsernames == {Alice, Bob}

MaxKeyed == 5

KeyedLogin ==
    \E addr \in KeyAddrs, u \in KeyUsernames :
        ArriveUpTo(NewReq("POST", "/authenticate", addr, u, Other1, NoEmail,
                          NoToken, NoToken, NoToken), MaxKeyed)

KeysInit ==
    /\ variant \in {"router", "limited"}
    /\ alive = TRUE
    /\ store = <<[username |-> Alice, password |-> Argon2Hash(Passw0rd, 1)]>>
    /\ limits = [a \in KeyAddrs |-> NoLimit]
    /\ reqs = EmptyBag
    /\ issued = {}
    /\ clock = 0
    /\ advances = 0
    /\ arrived = 0
    /\ decisions = <<>>

KeysNext ==
    \/ KeyedLogin
    \/ LimiterGet
    \/ LimiterSet
    \/ FindOneDone
    \/ VerifyDone
    \/ Collect

SpecKeys == KeysInit /\ [][KeysNext]_vars

---------------------------------------------------------------------------
\* The two limited routes together: total registration attempts from one
\* address, which may overlap, and then, when all of them have been
\* answered, a login from that address, all within one window.

SharedRegister ==
    \E addr \in Addrs :
        ArriveUpTo(NewReq("POST", "/create", addr, Alice, NoPw, NoEmail,
                          NoToken, NoToken, NoToken), total)

SharedLogin ==
    \E addr \in Addrs :
        /\ reqs = EmptyBag
        /\ arrived = total
        /\ ArriveUpTo(NewReq("POST", "/authenticate", addr, Alice, Other1, NoEmail,
                             NoToken, NoToken, NoToken), total + 1)

SharedNext ==
    \/ SharedRegister
    \/ SharedLogin
    \/ LimiterGet
    \/ LimiterSet
    \/ FindOneDone
    \/ VerifyDone
    \/ Collect

SpecShared == LimiterInit /\ [][SharedNext]_vars

---------------------------------------------------------------------------
\* Properties.

InBag == BagToSet(reqs)
Answered == At("done")
ProtectedPaths == {"/", "/users", "/check"}
ProtectedHandlers == {"welcome", "users", "check"}
CarriesNoToken(r) == ~Truthy(r.tokBody) /\ ~Truthy(r.tokQuery) /\ ~Truthy(r.tokHeader)
ReachedGate(r) == r.path \in ProtectedPaths /\ r.pc \notin {"limGet", "limSet"}
                      /\ r.res.status # 429
DigestOf(d, pw) == IsDigest(d) /\ d.text = pw

\* C1: a Register request whose username is already in the user store is
\* answered 403 'Username already exists.' and leaves the store as it was
\* (the router and the limited server, which the claim names).
C1_DuplicateRegisterRejected ==
    [][\A q \in Answered' :
          (variant # "legacy" /\ q.handler = "create" /\ q.user.found)
              => /\ q.res.status = 403
                 /\ q.res.message = "Username already exists."
                 /\ store' = store]_vars

\* C2: concurrent Register requests for one username leave at most one
\* registered record for it in the user store (so at most one succeeded).
C2_OneRecordPerUsername ==
    \A i, j \in 1..Len(store) :
        (i < j /\ IsDigest(store[i].password) /\ IsDigest(store[j].password))
            => store[i].username # store[j].username

\* C3: a Register request with a non-empty username that is not in the
\* store and a password that satisfies the policy, when hashing does not
\* fail, is answered 200 {success:true} without a token, and the store then
\* holds a record for the username with a digest of that password.
C3_RegisterSucceeds ==
    \A q \in Answered :
        (/\ variant # "legacy"
         /\ q.handler = "create"
         /\ q.username # NoName
         /\ ~q.user.found
         /\ PolicyCheck(q.password)
         /\ ~q.res.exception)
            => /\ q.res.status = 200
               /\ q.res.success = "true"
               /\ q.res.token = NoToken
               /\ \E i \in 1..Len(store) :
                      /\ store[i].username = q.username
                      /\ DigestOf(store[i].password, q.password)

\* C4: a Register request with an empty or missing username is rejected with
\* ValidationError (403) whatever its password, and no record with an empty
\* username is ever written.
C4_EmptyUsernameRejected ==
    /\ \A q \in Answered :
           (q.handler = "create" /\ q.username = NoName)
               => (q.res.status = 403 /\ q.res.success = "false" /\ ~q.hashed)
    /\ \A i \in 1..Len(store) : store[i].username # NoName

\* C5: a Register request with a fresh non-empty username whose password
\* fails the policy is answered 406 with the policy violations, without the
\* hasher being invoked and without a record being written.
C5_WeakPasswordRejected ==
    [][\A q \in Answered' :
          (/\ variant # "legacy"
           /\ q.handler = "create"
           /\ q.username # NoName
           /\ ~q.user.found
           /\ ~PolicyCheck(q.password))
              => /\ q.res.status = 406
                 /\ q.res.policy # <<>>
                 /\ ~q.hashed
                 /\ store' = store]_vars

\* C6: the password field of every stored user record is a digest produced
\* by the hasher, never a plaintext password.
C6_OnlyDigestsStored ==
    \A i \in 1..Len(store) : IsDigest(store[i].password)

\* C7: Login(username, password) answers 200 with a non-empty token whose
\* subject is the username exactly when the store held, at the lookup, a
\* record for the username whose digest the password verifies against; when
\* there is no such record it answers 403 without a token (the router and
\* the limited server; a failure of the hasher itself is left aside).
C7_LoginSucceedsIffKnown ==
    \A q \in Answered :
        (variant # "legacy" /\ q.handler = "authenticate" /\ ~q.res.exception)
            => LET ok == /\ q.res.status = 200
                         /\ q.res.success = "true"
                         /\ Truthy(q.res.token)
                         /\ q.res.token.payload.username = q.username
               IN  /\ ok <=> q.known
                   /\ ~q.known => (q.res.status = 403 /\ q.res.token = NoToken)

\* C8: a request to a protected route that carries no token in the body,
\* the query string or the x-access-token header is answered 403
\* 'No token provided.' and no handler runs for it.
C8_NoTokenRejected ==
    \A r \in InBag :
        (ReachedGate(r) /\ CarriesNoToken(r))
            => /\ r.pc = "done"
               /\ r.res = Json(403, "false", "No token provided.")
               /\ r.handler = "none"
               /\ r.decoded = NoClaims

C8_Witness ==
    \E r \in Answered :
        /\ r.path = "/users"
        /\ CarriesNoToken(r)
        /\ r.res.status = 403

\* C9: a request to a protected route whose token is expired, has an invalid
\* signature or is malformed is answered 403 {success:false,
\* message:'Failed to authenticate token.'}, the same response in each case.
C9_BadTokenRejected ==
    \A r \in Answered :
        (/\ ReachedGate(r)
         /\ Truthy(ExtractToken(r))
         /\ (~SignatureValid(ExtractToken(r), secret) \/ Expired(ExtractToken(r), r.at)))
            => r.res = Json(403, "false", "Failed to authenticate token.")

\* C10: the handler of a protected route runs for a request only if the
\* token the request carries has a valid signature under the secret and is
\* not expired, and the decoded claims are attached to the request.
C10_HandlerOnlyAfterVerify ==
    \A r \in InBag :
        r.handler \in ProtectedHandlers
            => LET t == ExtractToken(r)
               IN  /\ Truthy(t)
                   /\ SignatureValid(t, secret)
                   /\ ~Expired(t, clock)
                   /\ r.decoded = t.payload

C10_Witness ==
    \E r \in InBag :
        /\ r.handler = "users"
        /\ r.pc = "find"
        /\ r.decoded.username = Alice

---------------------------------------------------------------------------
\* Tokens over time (checked under SpecGate, where the clock moves only
\* between requests, so that clock is the time of every decision in the bag).

\* the request presents a token that Login issued, as it was issued
PresentsIssued(r) ==
    /\ ReachedGate(r)
    /\ Truthy(ExtractToken(r))
    /\ SignatureValid(ExtractToken(r), secret)

GateAccepted(r) == r.decoded = ExtractToken(r).payload
GateRejected(r) ==
    /\ r.decoded = NoClaims
    /\ r.handler = "none"
    /\ r.res.message = "Failed to authenticate token."

\* C11 as the claim states it: a token issued by Login at time t has
\* expiresAt = t + 24h (in the token's unit, seconds), is accepted by RequireToken at every time before
\* t + 24h whatever was processed in between, and is rejected at every time
\* after t + 24h.
C11_AcceptedUntilIssuePlus24h ==
    \A r \in InBag :
        PresentsIssued(r)
            => LET tok == ExtractToken(r)
                   end == tok.signedAt + expiresIn * 1000
               IN  /\ tok.payload.exp = Seconds(end)
                   /\ clock < end => GateAccepted(r)
                   /\ clock > end => GateRejected(r)

\* C11, amended: the token carries iat = the whole second it was issued in
\* and exp = iat + 24h; RequireToken accepts it at every time whose whole
\* second is before exp, whatever was processed in between, and rejects it
\* at every time from exp on.
C11_AcceptedUntilExp ==
    \A r \in InBag :
        PresentsIssued(r)
            => LET tok == ExtractToken(r)
                   exp == Seconds(tok.signedAt) + expiresIn
               IN  /\ tok.payload.iat = Seconds(tok.signedAt)
                   /\ tok.payload.exp = exp
                   /\ Seconds(clock) < exp => GateAccepted(r)
                   /\ Seconds(clock) >= exp => GateRejected(r)

\* a token signed half a second into a second is refused half a second
\* before its 24 hours are over
C11_Witness ==
    \E r \in Answered :
        /\ PresentsIssued(r)
        /\ ExtractToken(r).signedAt = 500
        /\ clock = expiresIn * 1000
        /\ GateRejected(r)

\* the places of a request that supply a non-empty token, in the order
\* body field, query parameter, header
SuppliedIn(r) ==
    SelectSeq(<<r.tokBody, r.tokQuery, r.tokHeader>>,
              LAMBDA tok : tok.kind \notin {"none", "empty"})

VerifiesAt(tok, now) ==
    /\ tok.kind = "jwt"
    /\ tok.sig = [key |-> secret, over |-> tok.payload]
    /\ Seconds(now) < tok.payload.exp

---------------------------------------------------------------------------
\* The rate limiter (checked under SpecLimiter: every request is sent to a
\* rate-limited route by one address, and the first of them at time 0, so
\* that the first window is the 5 minutes from 0).

Decided == 1..Len(decisions)
InFirstWindow(k) == decisions[k].at < expire

\* C13: under the policy with total = N, the first N rate-limited requests
\* of one address within a window are all admitted to their route handler
\* and the (N+1)th is rejected.
C13_FirstNAdmitted ==
    \A k \in Decided :
        InFirstWindow(k)
            => /\ k <= total => decisions[k].admitted
               /\ k = total + 1 => ~decisions[k].admitted

\* C14 as the claim states it, the window being [start, start + 5 min): the
\* first request decided once the window of the first request has elapsed is
\* admitted, whatever was sent during the window.
C14_AdmittedOnceWindowElapsed ==
    \A k \in Decided :
        (/\ decisions[k].at >= expire
         /\ \A j \in 1..(k - 1) : decisions[j].at < expire)
            => decisions[k].admitted

\* C14, amended: the window is fixed from the first counted request and
\* closed at its end; the first request decided more than 5 minutes after
\* the first counted request is admitted again, even if the address kept
\* sending rejected requests during the window.
C14_AdmittedAfterWindow ==
    \A k \in Decided :
        (/\ decisions[k].at > expire
         /\ \A j \in 1..(k - 1) : decisions[j].at <= expire)
            => decisions[k].admitted

\* the address was still being rejected late in the window, and is admitted
\* after it
C14_Witness ==
    \E k \in Decided :
        /\ decisions[k].at > expire
        /\ decisions[k].admitted
        /\ \A j \in 1..(k - 1) : decisions[j].at <= expire
        /\ \E j \in 1..(k - 1) : decisions[j].at > 0 /\ ~decisions[j].admitted

\* C15: no increment is lost: however the requests of one address overlap,
\* at most total of them are admitted within one window.
C15_AtMostTotalAdmitted ==
    Cardinality({k \in Decided : InFirstWindow(k) /\ decisions[k].admitted}) <= total

\* C16: rate limiting precedes the auth pipeline: a Register or Login
\* request that the rate limiter rejects is answered 429 {success: false,
\* message: 'Rate limit exceeded'} and that is all that happens for it: no
\* route handler, no user-store lookup, no hashing or verification, no
\* user-store write and no token; and no request is looked up, hashed or
\* verified while it is still with the limiter.
C16_RejectedBeforePipeline ==
    [][\A q \in BagToSet(reqs') :
          /\ q.res.status = 429
                => /\ q.pc = "done"
                   /\ q.res = Json(429, "false", "Rate limit exceeded")
                   /\ q.handler = "none"
                   /\ q.user = NoUser
                   /\ ~q.hashed
                   /\ q.digest = NoDigest
                   /\ q \notin BagToSet(reqs) => (store' = store /\ issued' = issued)
          /\ q.pc \in {"limGet", "limSet"}
                => (q.handler = "none" /\ q.user = NoUser /\ ~q.hashed)]_vars

\* a Login for a registered user is turned away by the limiter
C16_Witness ==
    \E r \in Answered :
        /\ r.path = "/authenticate"
        /\ r.username = Alice
        /\ FindOne(Alice).found
        /\ r.res.status = 429
        /\ variant = "router"

\* the attempts counted against a stored limit
Count(lim) == total - lim.remaining

\* C24 as the claim states it: in every reachable state the counter of every
\* key holds a count that does not exceed the policy's total, after any
\* sequence of admitted and rejected attempts.
C24_CountAtMostTotal ==
    \A a \in DOMAIN limits :
        limits[a].present => Count(limits[a]) <= total

\* C24, amended: in every reachable state the counter of every key holds a
\* count of at least 1 that does not exceed the policy's total by more than
\* one, after any sequence of admitted and rejected attempts (the count
\* total + 1, remaining -1, marks the window as used up).
C24_CountAtMostTotalPlusOne ==
    /\ \A a \in DOMAIN limits :
           limits[a].present
               => (Count(limits[a]) >= 1 /\ Count(limits[a]) <= total + 1)
    /\ \A r \in InBag :
           r.lim.present => (Count(r.lim) >= 1 /\ Count(r.lim) <= total + 1)

\* two attempts were rejected in one window and the count stands at
\* total + 1
C24_Witness ==
    \E a \in DOMAIN limits :
        /\ limits[a].present
        /\ Count(limits[a]) = total + 1
        /\ \E j, k \in Decided :
               /\ j < k
               /\ ~decisions[j].admitted /\ ~decisions[k].admitted
               /\ decisions[j].at = clock /\ decisions[k].at = clock

\* how many requests of the set S the bag b holds
RECURSIVE Copies(_, _)
Copies(b, S) ==
    IF S = {} THEN 0
    ELSE LET r == CHOOSE x \in S : TRUE
         IN  CopiesIn(r, b) + Copies(b, S \ {r})

\* the attempts of address a: those decided, and those still at the limiter
Attempts(log, b, a) ==
    Cardinality({j \in DOMAIN log : log[j].addr = a})
        + Copies(b, {r \in BagToSet(b) : r.addr = a /\ r.pc \in {"limGet", "limSet"}})

\* C25 (checked under SpecKeys): the key of a limit depends on the client's
\* address only. A step changes the counter of an address only by writing
\* the limit of a request from that address; a request is rejected only on
\* account of the attempts of its own address; and whatever username a
\* request names, it counts against the counter of its address: it takes one
\* off what is stored for the address (or off total, when nothing is).
C25_KeyIsTheAddress ==
    [][/\ \A b \in DOMAIN limits :
              limits'[b] # limits[b]
                  => \E r \in At("limSet") :
                         /\ r.addr = b
                         /\ limits'[b] = [r.lim EXCEPT !.px = clock + expire]
       /\ decisions' # decisions
              => LET d == decisions'[Len(decisions')]
                 IN  ~d.admitted
                         => LimiterPasses("POST", "/authenticate")
                                * Attempts(decisions', reqs', d.addr) > total
       /\ \A r \in At("limGet") : \A q \in At("limSet")' \ At("limSet") :
              q = [r EXCEPT !.lim = q.lim, !.pc = "limSet"]
                  => q.lim.remaining =
                         Max((IF limits[r.addr].present
                              THEN limits[r.addr].remaining
                              ELSE total) - 1, -1)]_vars

\* one address has used its window up and been rejected; the first login
\* from the other address is admitted all the same, and the counter of that
\* address shows its own two passes only
C25_Witness ==
    \E j, k \in Decided :
        /\ j < k
        /\ decisions[j].addr = AddrA /\ ~decisions[j].admitted
        /\ decisions[k].addr = AddrB /\ decisions[k].admitted
        /\ limits[AddrB].present
        /\ limits[AddrB].remaining = total - 2

\* C26 (checked under SpecShared, where a login arrives only after total
\* registration attempts from its address have been answered, in the same
\* window): POST /create and POST /authenticate share one counter per
\* address, so a login that follows total registration attempts is rejected
\* with 429.
C26_LoginAfterRegistrationsRejected ==
    \A r \in InBag :
        (/\ r.path = "/authenticate"
         /\ r.pc \notin {"limGet", "limSet"}
         /\ arrived = total + 1
         /\ \A k \in 1..total : decisions[k].addr = r.addr /\ decisions[k].at = clock)
            => /\ r.pc = "done"
               /\ r.res.status = 429
               /\ r.res.message = "Rate limit exceeded"

---------------------------------------------------------------------------
\* Responses and failures (checked under Spec).

\* C17: GET /api/users returns only the list of usernames, and no response
\* body of any route contains a stored password digest.
C17_NoDigestInResponses ==
    \A r \in Answered :
        /\ \A i \in DOMAIN r.res.docs :
               \A j \in DOMAIN store : r.res.docs[i].password # store[j].password
        /\ (r.handler = "users" /\ r.res.status = 200)
               => (r.res.docs = <<>> /\ r.res.names = UsernamesOf(store))

\* the same request, before and after one of its steps
SameRequest(r, q) ==
    /\ q.method = r.method /\ q.path = r.path /\ q.addr = r.addr
    /\ q.username = r.username /\ q.password = r.password /\ q.email = r.email
    /\ q.tokBody = r.tokBody /\ q.tokQuery = r.tokQuery /\ q.tokHeader = r.tokHeader

\* C18: a user-store failure during Register (on the lookup or on the save)
\* or during Login (on the lookup) is translated into an InternalError
\* response for that request: the request whose store callback got the
\* error is answered, with status 500.
C18_StoreFailureAnswered500 ==
    \A r \in InBag :
        (r.handler \in {"create", "authenticate"} /\ r.pc = "thrown")
            => (r.res.status = 500 /\ r.res.success = "false")

\* C19: no failure crashes the serving process: whatever happens to one
\* request, every other request in flight stays in flight until it is
\* answered.
C19_OthersStayInFlight ==
    [][\A r \in InBag :
          r.pc # "done" => \E q \in BagToSet(reqs') : SameRequest(r, q)]_vars

---------------------------------------------------------------------------
\* The password policy (checked under SpecPolicy).

\* the requirements as the claim lists them
MeetsRequirements(pw) ==
    /\ Len(pw) >= 6
    /\ ~\E i \in 1..(Len(pw) - 3) :
           pw[i] = pw[i + 1] /\ pw[i] = pw[i + 2] /\ pw[i] = pw[i + 3]
    /\ \E i \in DOMAIN pw : pw[i] \in upperCase
    /\ \E i \in DOMAIN pw : pw[i] \in numbers
    /\ \E i \in DOMAIN pw : pw[i] \in specialCharacters

\* the handler has put the password of r to the policy
PolicyEvaluated(r) ==
    /\ r.handler = "create"
    /\ r.pc \in {"hash", "save", "done"}
    /\ ~r.user.found
    /\ r.res.message # "Missing required information"

\* C20: for every candidate password over the alphabet, the policy accepts
\* (the request goes on to the hasher) exactly when the password has length
\* >= 6, no run of more than 3 identical consecutive characters, and an
\* uppercase letter, a digit and a special character; otherwise the request
\* is answered 'Invalid Password' with the policy, the length rule in it, so
\* in particular for every password shorter than 6 characters.
C20_PolicyAcceptsExactly ==
    \A r \in InBag :
        PolicyEvaluated(r)
            => /\ r.hashed <=> MeetsRequirements(r.password)
               /\ ~MeetsRequirements(r.password)
                     => /\ r.pc = "done"
                        /\ r.res.success = "false"
                        /\ r.res.message = "Invalid Password"
                        /\ \E i \in DOMAIN r.res.policy : r.res.policy[i] = "length"

\* a password of exactly 6 characters, three of them identical in a row, is
\* accepted
C20_Witness ==
    \E r \in InBag :
        /\ PolicyEvaluated(r)
        /\ r.password = <<"a", "a", "a", "A", "1", "!">>
        /\ r.hashed


\* the request was answered with a PolicyError
PolicyError(r) ==
    /\ PolicyEvaluated(r)
    /\ r.pc = "done"
    /\ r.res.message = "Invalid Password"

\* C23 as the claim states it: the violations returned with a PolicyError
\* hold exactly one entry for each rule the password fails, in the order
\* length, identical-character run, required character classes, and no
\* entry for a rule the password satisfies.
C23_ViolationsAreFailingRules ==
    \A r \in InBag :
        PolicyError(r) => r.res.policy = FailingRules(r.password)

\* C23, amended: the policy returned with a PolicyError holds exactly one
\* entry for each rule of the configured policy, in the order length,
\* identical-character run, required character classes, whether the password
\* fails the rule or satisfies it; it is the same for every input.
C23_PolicyListsEveryRule ==
    \A r \in InBag :
        PolicyError(r)
            => r.res.policy = <<"length", "identicalChars", "contains">>

\* a password that fails the length rule only is answered with all three
C23_Witness ==
    \E r \in InBag :
        /\ PolicyError(r)
        /\ r.password = <<"a", "A", "1", "!">>
        /\ FailingRules(r.password) = <<"length">>
        /\ Len(r.res.policy) = 3

---------------------------------------------------------------------------
\* The round trip through the API (checked under SpecGate).

\* C21: for every username u, the token returned by a successful
\* Login(u, ...), presented to GET /api/check immediately after it was
\* issued, is answered 200 with the decoded claims verbatim, and their
\* subject is u.
C21_CheckReturnsClaims ==
    /\ \A q \in Answered :
           (q.handler = "authenticate" /\ Truthy(q.res.token))
               => q.res.token.payload.username = q.username
    /\ \A r \in Answered :
           (/\ r.path = "/check"
            /\ PresentsIssued(r)
            /\ ExtractToken(r).signedAt = clock)
               => /\ r.res.status = 200
                  /\ r.res.claims = ExtractToken(r).payload


---------------------------------------------------------------------------
\* Failures of the hasher (checked under SpecHasher).

\* the step in which request r gets its response q
AnsweredBy(r, q) ==
    /\ r.pc # "done"
    /\ q.pc = "done"
    /\ [q EXCEPT !.pc = r.pc, !.res = r.res, !.at = r.at] = r

---------------------------------------------------------------------------
\* Requests the limiter leaves alone (checked under Spec).

\* C27: in the router, whose limiter is mounted for POST only, GET requests
\* to the protected routes are never throttled: whatever token they carry,
\* they never pass through the limiter, never get a 429, and no step taken
\* for them changes a rate-limit counter (a counter changes only by the
\* write of a POST request).
C27_GetNeverThrottled ==
    [][variant = "router"
          => /\ \A r \in BagToSet(reqs') :
                    (r.method = "GET" /\ r.path \in ProtectedPaths)
                        => /\ r.pc \notin {"limGet", "limSet"}
                           /\ r.lim = NoLimit
                           /\ r.res.status # 429
             /\ limits' # limits
                    => \E r \in At("limSet") :
                           /\ r.method = "POST"
                           /\ limits' = [limits EXCEPT ![r.addr] =
                                            [r.lim EXCEPT !.px = clock + expire]]]_vars

\* after one login, a GET with the token it issued is answered 200 and the
\* counter still shows the two passes of the login only
C27_Witness ==
    \E r \in Answered :
        /\ variant = "router"
        /\ r.method = "GET"
        /\ r.path = "/users"
        /\ r.res.status = 200
        /\ arrived = 2
        /\ limits[r.addr].present
        /\ limits[r.addr].remaining = total - 2

====
